---- MODULE Spec2Model ----
(***************************************************************************)
(* Vault ingestion pipeline of auto_secondbrain: the inline strategy       *)
(* (VaultService.upload_and_process_vault), the queued strategy (the       *)
(* Celery task process_vault with its sub-tasks), the upload endpoint      *)
(* (upload_vault) and delete_vault, over one shared vault table and one    *)
(* storage directory.                                                      *)
(*                                                                         *)
(* Text is modelled as a tuple of one-character strings, so that           *)
(* str.endswith and the `in` test are computed and not tabulated.          *)
(***************************************************************************)
EXTENDS Integers, Sequences, FiniteSets, TLC

\* ------------------------------------------------------------------ bounds
MaxCalls == 2         \* number of calls from outside in a run: uploads,
                      \* deletes and process_vault.delay(...)

\* --------------------------------------------------------- program constants
MAX_VAULT_SIZE == 104857600     \* 100 * 1024 * 1024
max_retries == 3                \* @celery_app.task(bind=True, max_retries=3)
VaultServiceInitArgs == 2       \* __init__(self, db, storage_path)
MAX_CONCURRENT_TASKS == 2       \* slots of the worker that serves the queue
RouterInitArgs == 1             \* VaultService(db)

None == "None"        \* None where the value is text
NoCount == 0 - 1      \* None where the value is a number
Ids == 1..MaxCalls

\* ------------------------------------------------------------ text helpers
EndsWith(s, suf) ==
    /\ Len(s) >= Len(suf)
    /\ SubSeq(s, Len(s) - Len(suf) + 1, Len(s)) = suf

Contains(s, sub) ==
    \E i \in 1..(Len(s) - Len(sub) + 1) : SubSeq(s, i, i + Len(sub) - 1) = sub

DotZip == <<".", "z", "i", "p">>
DotMd == <<".", "m", "d">>
DotObsidian == <<".", "o", "b", "s", "i", "d", "i", "a", "n">>

\* os.path components of an archive member name
RECURSIVE Split(_)
Split(s) ==
    IF \A i \in 1..Len(s) : s[i] # "/" THEN <<s>>
    ELSE LET k == CHOOSE i \in 1..Len(s) :
                      s[i] = "/" /\ \A j \in 1..(i - 1) : s[j] # "/"
         IN <<SubSeq(s, 1, k - 1)>> \o Split(SubSeq(s, k + 1, Len(s)))

RECURSIVE Join(_)
Join(parts) ==
    IF parts = << >> THEN << >>
    ELSE IF Len(parts) = 1 THEN parts[1]
    ELSE parts[1] \o <<"/">> \o Join(Tail(parts))

InvalidPathParts == {<< >>, <<".">>, <<".", ".">>}

\* the member resolves outside of the directory it is extracted into
IsUnsafeName(n) ==
    \/ (Len(n) > 0 /\ n[1] = "/")
    \/ \E i \in 1..Len(Split(n)) : Split(n)[i] = <<".", ".">>

\* zipfile._extract_member: the target path of a member keeps only the
\* components that are not "", "." or ".."
SanitizedName(n) ==
    Join(SelectSeq(Split(n), LAMBDA p : p \notin InvalidPathParts))

\* ZipInfo.is_dir: the member is a directory entry
IsDirEntry(n) == Len(n) > 0 /\ n[Len(n)] = "/"

\* the path a member is written to, relative to the extraction directory;
\* the path of a directory keeps its closing "/"
TargetPath(n) ==
    IF IsDirEntry(n) THEN SanitizedName(n) \o <<"/">> ELSE SanitizedName(n)

\* ---------------------------------------------------------- classification
StartsWith(s, pre) == Len(s) >= Len(pre) /\ SubSeq(s, 1, Len(pre)) = pre

\* os.path.basename: what follows the last "/"
Basename(path) == Split(path)[Len(Split(path))]

\* os.walk: the files below the extraction directory, as paths relative to it
walk_files(tree) == {path \in tree : ~IsDirEntry(path)}

\* the if / elif / else of lines 263 to 268 (146 to 151 in the task): the
\* list a file is appended to
classify(relative_path) ==
    IF EndsWith(Basename(relative_path), DotMd) THEN "markdown_files"
    ELSE IF StartsWith(Basename(relative_path), <<".">>)
               \/ Contains(relative_path, DotObsidian)
    THEN "config_files"
    ELSE "attachment_files"

\* the three lists after the walk of the extraction directory
classified_files(tree) ==
    [markdown_files |-> {f \in walk_files(tree) : classify(f) = "markdown_files"},
     attachment_files |->
         {f \in walk_files(tree) : classify(f) = "attachment_files"},
     config_files |-> {f \in walk_files(tree) : classify(f) = "config_files"}]

NoFileInfo == classified_files({})

\* ------------------------------------------------- analyze_vault_content
MaxNotes == 2         \* length of the note list that is analysed

\* str.split(sep)
RECURSIVE SplitOn(_, _)
SplitOn(s, sep) ==
    IF \A i \in 1..Len(s) : s[i] # sep THEN <<s>>
    ELSE LET k == CHOOSE i \in 1..Len(s) :
                      s[i] = sep /\ \A j \in 1..(i - 1) : s[j] # sep
         IN <<SubSeq(s, 1, k - 1)>> \o SplitOn(SubSeq(s, k + 1, Len(s)), sep)

Whitespace == {" ", "\t", "\n"}

\* str.strip()
RECURSIVE Strip(_)
Strip(s) ==
    IF s = << >> THEN s
    ELSE IF s[1] \in Whitespace THEN Strip(Tail(s))
    ELSE IF s[Len(s)] \in Whitespace THEN Strip(SubSeq(s, 1, Len(s) - 1))
    ELSE s

\* the for loop of lines 199 to 203: the heading of the first line that
\* starts with "# " once stripped, or None
RECURSIVE first_heading(_)
first_heading(lines) ==
    IF lines = << >> THEN None
    ELSE IF StartsWith(Strip(Head(lines)), <<"#", " ">>)
    THEN SubSeq(Strip(Head(lines)), 3, Len(Strip(Head(lines))))
    ELSE first_heading(Tail(lines))

\* os.path.splitext(...)[0]: the name without its last extension; leading
\* dots are no extension
splitext_root(name) ==
    LET dots == {k \in 1..Len(name) :
                    /\ name[k] = "."
                    /\ \E j \in 1..(k - 1) : name[j] # "."}
    IN IF dots = {} THEN name
       ELSE SubSeq(name, 1, (CHOOSE k \in dots : \A j \in dots : j <= k) - 1)

\* lines 198 to 206: the title of a note that was read
note_title(md_file, content) ==
    LET title == first_heading(SplitOn(content, "\n"))
    IN IF title = None \/ title = << >>
       THEN splitext_root(Basename(md_file))
       ELSE title

RECURSIVE GCD(_, _)
GCD(a, b) == IF b = 0 THEN a ELSE GCD(b, a % b)

\* the quotient a / b of true division, as a fraction in lowest terms
Quotient(a, b) == [num |-> a \div GCD(a, b), den |-> b \div GCD(a, b)]
Zero == [num |-> 0, den |-> 1]

\* what open(...).read() gives for a note: its text, or an exception
Unreadable == [ok |-> FALSE, text |-> << >>]
Text(t) == [ok |-> TRUE, text |-> t]

\* the for loop of lines 189 to 215 over the notes from position i on, with
\* the totals so far: a note that raises is logged and skipped
RECURSIVE analyze_notes(_, _, _, _, _)
analyze_notes(markdown_files, reads, i, total_content_length, note_titles) ==
    IF i > Len(markdown_files)
    THEN [total_content_length |-> total_content_length,
          note_titles |-> note_titles]
    ELSE IF ~reads[i].ok
    THEN analyze_notes(markdown_files, reads, i + 1, total_content_length,
                       note_titles)
    ELSE analyze_notes(markdown_files, reads, i + 1,
                       total_content_length + Len(reads[i].text),
                       Append(note_titles,
                              note_title(markdown_files[i], reads[i].text)))

\* a mutant of analyze_vault_content: the average is taken over the notes
\* that were read
analyze_vault_content_average_of_read(markdown_files, reads) ==
    LET acc == analyze_notes(markdown_files, reads, 1, 0, << >>)
    IN [ok |-> TRUE, exc |-> None,
        total_content_length |-> acc.total_content_length,
        note_titles |-> acc.note_titles,
        average_note_length |->
            IF acc.note_titles # << >>
            THEN Quotient(acc.total_content_length, Len(acc.note_titles))
            ELSE Zero]

\* a mutant of analyze_vault_content: a note that cannot be read ends the
\* task with its exception
analyze_vault_content_read_raises(markdown_files, reads) ==
    LET acc == analyze_notes(markdown_files, reads, 1, 0, << >>)
    IN IF \E i \in 1..Len(markdown_files) : ~reads[i].ok
       THEN [ok |-> FALSE, exc |-> "OSError", total_content_length |-> 0,
             note_titles |-> << >>, average_note_length |-> Zero]
       ELSE [ok |-> TRUE, exc |-> None,
             total_content_length |-> acc.total_content_length,
             note_titles |-> acc.note_titles,
             average_note_length |->
                 IF markdown_files # << >>
                 THEN Quotient(acc.total_content_length, Len(markdown_files))
                 ELSE Zero]

\* analyze_vault_content, lines 181 to 237: the result for the note list of
\* file_info, reads[i] being what reading the i-th note gives
analyze_vault_content(markdown_files, reads) ==
    LET acc == analyze_notes(markdown_files, reads, 1, 0, << >>)
    IN [ok |-> TRUE, exc |-> None,
        total_content_length |-> acc.total_content_length,
        note_titles |-> acc.note_titles,
        average_note_length |->
            IF markdown_files # << >>
            THEN Quotient(acc.total_content_length, Len(markdown_files))
            ELSE Zero]

NoAnalysis ==
    [total_content_length |-> 0, note_titles |-> << >>,
     average_note_length |-> Zero]

\* ------------------------------------------------------------------ inputs
FN_zip == <<"v", ".", "z", "i", "p">>
FN_txt == <<"t", ".", "t", "x", "t">>
FN_none == << >>
Filenames == {FN_zip, FN_txt, FN_none}

N_note == <<"n", ".", "m", "d">>
N_conf == DotObsidian \o <<"/", "c">>
N_img == <<"i", ".", "p", "n", "g">>
N_evil == <<".", ".", "/", "e", ".", "m", "d">>
N_att == <<"a">>
N_dir == <<"a", "/">>
N_sub == <<"a", "/", "n", ".", "m", "d">>
N_cfgnote == DotObsidian \o <<"/", "t", ".", "m", "d">>
N_dot == <<".", "h">>

Entry(n, crc) == [name |-> n, crc_ok |-> crc]

\* uploaded byte payloads: zip = the bytes open as a zip archive
P_notzip == [zip |-> FALSE, entries |-> << >>, len |-> 14]
P_noobs == [zip |-> TRUE, entries |-> <<Entry(N_img, TRUE)>>, len |-> 20]
P_good == [zip |-> TRUE, len |-> 30,
           entries |-> <<Entry(N_note, TRUE), Entry(N_conf, TRUE)>>]
P_evil == [zip |-> TRUE, len |-> 31,
           entries |-> <<Entry(N_note, TRUE), Entry(N_evil, TRUE)>>]
P_badcrc == [zip |-> TRUE, len |-> 32,
             entries |-> <<Entry(N_note, TRUE), Entry(N_img, FALSE)>>]
P_attach == [zip |-> TRUE, len |-> 33,
             entries |-> <<Entry(N_note, TRUE), Entry(N_att, TRUE)>>]
P_folder == [zip |-> TRUE, len |-> 34,
             entries |-> <<Entry(N_dir, TRUE), Entry(N_sub, TRUE)>>]
P_hidden == [zip |-> TRUE, len |-> 35,
             entries |-> <<Entry(N_cfgnote, TRUE), Entry(N_dot, TRUE),
                           Entry(N_img, TRUE)>>]
\* an archive of one byte more than the maximum
P_huge == [zip |-> TRUE, len |-> MAX_VAULT_SIZE + 1,
           entries |-> <<Entry(N_note, TRUE), Entry(N_conf, TRUE)>>]
Payloads == {P_notzip, P_noobs, P_good, P_evil, P_badcrc}

DeclaredSizes == {0, 10, MAX_VAULT_SIZE + 1}      \* 0: file.size is None or 0

File(fn, size, content) == [filename |-> fn, size |-> size, content |-> content]

\* the uploads that are tried: every payload under an accepted name and
\* size, a good payload under each rejected name and size, and an archive
\* over the maximum that comes without a size
UploadFiles ==
    {File(FN_zip, 10, p) : p \in Payloads}
        \cup {File(fn, 10, P_good) : fn \in Filenames}
        \cup {File(FN_zip, sz, P_good) : sz \in DeclaredSizes}
        \cup {File(FN_txt, 10, P_notzip), File(FN_zip, 0, P_notzip)}
        \cup {File(FN_zip, 0, P_huge)}

NoFile == [zip |-> FALSE, entries |-> << >>, len |-> 0 - 1]

\* ------------------------------------------------------------------- state
VARIABLES
    vaults,      \* the vaults table: id -> record, or NoVault
    jobs,        \* the processing_jobs table: sequence of job records
    disk,        \* the storage directory: stored archives and extracted trees
    nextId,      \* ids handed out so far (uuid4 never repeats)
    inl,         \* the upload_and_process_vault call in flight
    task,        \* the process_vault task
    calls,       \* number of calls from outside so far
    resp,        \* what the last step returned, raised or wrote
    pool         \* the vault_processing queue and the slots of the worker

vars == <<vaults, jobs, disk, nextId, inl, task, calls, resp, pool>>

NoVault == [status |-> "absent"]

\* libs.models.vault.VaultStatus
VaultStatus == {"uploaded", "processing", "completed", "failed"}

\* column defaults of a new VaultDB row
VaultDBDefaults ==
    [error_message |-> None, file_count |-> NoCount, processed_files |-> NoCount]

ZipPath(id) == [kind |-> "zipfile", id |-> id]     \* <storage>/<id>.zip
DirPath(id) == [kind |-> "dir", id |-> id]         \* <storage>/<id>

EmptyDisk ==
    [zips |-> [i \in Ids |-> NoFile],       \* <storage>/<id>.zip
     inline |-> [i \in Ids |-> {}],         \* <storage>/<id>_extracted
     unzipped |-> [i \in Ids |-> {}],       \* <storage>/<id>
     shared |-> {}]                         \* <storage>/extracted

\* file is the upload the step was called with, NoInput when it has none
NoInput == [filename |-> << >>, size |-> 0, content |-> NoFile]

RespF(op, code, detail, id, file) ==
    [op |-> op, code |-> code, detail |-> detail, id |-> id, file |-> file]

Resp(op, code, detail, id) == RespF(op, code, detail, id, NoInput)

IdleInline == [pc |-> "idle", id |-> 0, exc |-> None, file_count |-> 0,
               file_info |-> NoFileInfo]
IdleTask == [pc |-> "idle", vault_id |-> 0, retries |-> 0, job_id |-> 0,
             exc |-> None, file_count |-> 0, file_info |-> NoFileInfo,
             analysis |-> NoAnalysis, steps |-> << >>, failed_at |-> None]

\* a worker slot that runs nothing, and a pool with nothing sent to it
Free == [name |-> "free", vault_id |-> 0, retries |-> 0, parent |-> 0,
         pc |-> "free", result |-> None, exc |-> None, job_id |-> 0,
         file_count |-> 0]
IdlePool == [queue |-> << >>, sync |-> "blocks",
             slots |-> [w \in 1..MAX_CONCURRENT_TASKS |-> Free]]

Init ==
    /\ vaults = [i \in Ids |-> NoVault]
    /\ jobs = << >>
    /\ disk = EmptyDisk
    /\ nextId = 0
    /\ inl = IdleInline
    /\ task = IdleTask
    /\ calls = 0
    /\ resp = Resp("init", "ok", None, 0)
    /\ pool = IdlePool

Exists(tbl, id) == id \in Ids /\ tbl[id] # NoVault

\* ------------------------------------------------------------ VaultService
\* create_vault: the row that db.add / db.commit inserts
create_vault(filename, file_size, storage_path) ==
    [status |-> "uploaded",
     original_filename |-> filename,
     file_size |-> file_size,
     storage_path |-> storage_path] @@ VaultDBDefaults

\* a mutant of update_vault_status: error_message is assigned whether or not
\* it was supplied, so a call without it clears the stored message
update_vault_status_clears_message(tbl, id, status, error_message, file_count, processed_files) ==
    IF ~Exists(tbl, id) THEN tbl
    ELSE [tbl EXCEPT ![id] =
            [@ EXCEPT
               !.status = status,
               !.error_message = error_message,
               !.file_count = IF file_count # NoCount THEN file_count ELSE @,
               !.processed_files =
                   IF processed_files # NoCount THEN processed_files ELSE @]]

\* a mutant of update_vault_status: a row that is not found is inserted
update_vault_status_upserts(tbl, id, status, error_message, file_count, processed_files) ==
    IF id \notin Ids THEN tbl
    ELSE [tbl EXCEPT ![id] =
            [(IF Exists(tbl, id) THEN @
              ELSE create_vault(<< >>, 0, [kind |-> "zipfile", id |-> id]))
             EXCEPT
               !.status = status,
               !.error_message =
                   IF error_message # None THEN error_message ELSE @,
               !.file_count = IF file_count # NoCount THEN file_count ELSE @,
               !.processed_files =
                   IF processed_files # NoCount THEN processed_files ELSE @]]

\* a mutant of update_vault_status: the message is never stored
update_vault_status_drops_message(tbl, id, status, error_message, file_count, processed_files) ==
    IF ~Exists(tbl, id) THEN tbl
    ELSE [tbl EXCEPT ![id] =
            [@ EXCEPT
               !.status = status,
               !.file_count = IF file_count # NoCount THEN file_count ELSE @,
               !.processed_files =
                   IF processed_files # NoCount THEN processed_files ELSE @]]

\* update_vault_status: the table after the call (the commit succeeded);
\* an argument equal to None / NoCount was not supplied
update_vault_status(tbl, id, status, error_message, file_count, processed_files) ==
    IF ~Exists(tbl, id) THEN tbl
    ELSE [tbl EXCEPT ![id] =
            [@ EXCEPT
               !.status = status,
               !.error_message =
                   IF error_message # None THEN error_message ELSE @,
               !.file_count = IF file_count # NoCount THEN file_count ELSE @,
               !.processed_files =
                   IF processed_files # NoCount THEN processed_files ELSE @]]

\* a mutant of _validate_vault_file: only a missing filename is refused
validate_vault_file_any_suffix(file, max_size) ==
    IF file.filename = << >>
    THEN "Only ZIP files are supported"
    ELSE IF file.size # 0 /\ file.size > max_size
    THEN "File size exceeds maximum limit"
    ELSE None

\* _validate_vault_file: the message of the ValueError, or None
validate_vault_file(file, max_size) ==
    IF file.filename = << >> \/ ~EndsWith(file.filename, DotZip)
    THEN "Only ZIP files are supported"
    ELSE IF file.size # 0 /\ file.size > max_size
    THEN "File size exceeds maximum limit"
    ELSE None

\* zipfile.ZipFile.namelist
namelist(p) == [i \in 1..Len(p.entries) |-> p.entries[i].name]

\* a mutant of _is_valid_zip_content: bytes that do not open as a zip pass
is_valid_zip_content_lenient(content) ==
    IF ~content.zip THEN TRUE
    ELSE \E i \in 1..Len(content.entries) :
            \/ EndsWith(namelist(content)[i], DotMd)
            \/ Contains(namelist(content)[i], DotObsidian)

\* _is_valid_zip_content: the value of testzip() is dropped
is_valid_zip_content(content) ==
    IF ~content.zip THEN FALSE
    ELSE \E i \in 1..Len(content.entries) :
            \/ EndsWith(namelist(content)[i], DotMd)
            \/ Contains(namelist(content)[i], DotObsidian)

\* zipfile.ZipFile.extractall: members are written in order, each under its
\* sanitized name; a member whose checksum is wrong raises BadZipFile
RECURSIVE ExtractAll(_)
ExtractAll(entries) ==
    IF entries = << >> THEN [ok |-> TRUE, written |-> {}]
    ELSE IF ~Head(entries).crc_ok THEN [ok |-> FALSE, written |-> {}]
    ELSE LET rest == ExtractAll(Tail(entries))
         IN [ok |-> rest.ok,
             written |-> {TargetPath(Head(entries).name)} \cup rest.written]

\* _is_valid_zip of the router: the same check, written a second time
is_valid_zip(content) ==
    IF ~content.zip THEN FALSE
    ELSE \E i \in 1..Len(content.entries) :
            \/ EndsWith(namelist(content)[i], DotMd)
            \/ Contains(namelist(content)[i], DotObsidian)

\* opening a stored path as an archive and extracting it: the file_info, or
\* the exception; io = FALSE is a failing os.makedirs
Extract(archive, io) ==
    IF ~io THEN [ok |-> FALSE, exc |-> "OSError", written |-> {}, file_count |-> 0]
    ELSE IF archive = NoFile
    THEN [ok |-> FALSE, exc |-> "FileNotFoundError", written |-> {}, file_count |-> 0]
    ELSE IF ~archive.zip
    THEN [ok |-> FALSE, exc |-> "BadZipFile", written |-> {}, file_count |-> 0]
    ELSE LET x == ExtractAll(archive.entries)
         IN IF x.ok
            THEN [ok |-> TRUE, exc |-> None, written |-> x.written,
                  file_count |-> Len(namelist(archive))]
            ELSE [ok |-> FALSE, exc |-> "BadZipFile", written |-> x.written,
                  file_count |-> 0]

\* path a names a directory that path b lies in
IsPathPrefix(a, b) ==
    /\ Len(a) < Len(b)
    /\ SubSeq(b, 1, Len(a)) = a
    /\ b[Len(a) + 1] = "/"

\* zipfile.ZipFile.extractall into a directory that holds the paths of
\* present: a member is opened for writing under its sanitized name, which
\* raises when a file is in the place of one of its directories or a
\* directory in its own place, and its checksum is verified as it is copied
RECURSIVE ExtractAllInto(_, _)
ExtractAllInto(present, entries) ==
    IF entries = << >> THEN [ok |-> TRUE, exc |-> None, written |-> {}]
    ELSE LET n == TargetPath(Head(entries).name)
         IN IF \E e \in present : IsPathPrefix(e, n)
            THEN [ok |-> FALSE, written |-> {},
                  exc |-> IF IsDirEntry(n) THEN "FileExistsError"
                          ELSE "NotADirectoryError"]
            ELSE IF \E e \in present : IsPathPrefix(n, e)
            THEN [ok |-> FALSE, exc |-> "IsADirectoryError", written |-> {}]
            ELSE IF ~Head(entries).crc_ok
            THEN [ok |-> FALSE, exc |-> "BadZipFile", written |-> {}]
            ELSE LET rest == ExtractAllInto(present \cup {n}, Tail(entries))
                 IN [ok |-> rest.ok, exc |-> rest.exc,
                     written |-> {n} \cup rest.written]

\* a mutant of the extraction: file_count is the number of files written,
\* directory entries left out
ExtractInto_counts_files(present, archive, io) ==
    IF ~io \/ archive = NoFile \/ ~archive.zip THEN Extract(archive, io)
    ELSE LET x == ExtractAllInto(present, archive.entries)
         IN IF x.ok
            THEN [ok |-> TRUE, exc |-> None, written |-> x.written,
                  file_count |-> Cardinality({w \in x.written : ~IsDirEntry(w)}),
                  file_info |-> classified_files(present \cup x.written)]
            ELSE [ok |-> FALSE, exc |-> x.exc, written |-> x.written,
                  file_count |-> 0]

\* opening a stored path as an archive and extracting it into a directory
\* that holds the paths of present, then walking that directory
ExtractInto(present, archive, io) ==
    IF ~io \/ archive = NoFile \/ ~archive.zip THEN Extract(archive, io)
    ELSE LET x == ExtractAllInto(present, archive.entries)
         IN IF x.ok
            THEN [ok |-> TRUE, exc |-> None, written |-> x.written,
                  file_count |-> Len(namelist(archive)),
                  file_info |-> classified_files(present \cup x.written)]
            ELSE [ok |-> FALSE, exc |-> x.exc, written |-> x.written,
                  file_count |-> 0]

\* what a path of a vault record holds when it is opened with zipfile.ZipFile
ArchiveAt(d, storage_path) ==
    IF storage_path.kind = "zipfile" THEN d.zips[storage_path.id] ELSE NoFile


\* _store_vault_file: the storage directory after makedirs / open / f.write;
\* ok = FALSE is an OSError before the file is complete
store_vault_file(d, vault_id, content, ok) ==
    IF ok THEN [d EXCEPT !.zips[vault_id] = content] ELSE d

\* _process_vault_files: extraction into <storage>/<id>_extracted
process_vault_files(d, storage_path, io) ==
    ExtractInto(d.inline[storage_path.id], ArchiveAt(d, storage_path), io)

\* a mutant of the way through lines 129 to 154: a failing store is
\* swallowed and create_vault still runs
upload_outcome_store_swallowed(file, store, db) ==
    LET invalid == validate_vault_file(file, MAX_VAULT_SIZE)
        Out(code, detail, uuid, stored, created) ==
            [code |-> code, detail |-> detail, uuid |-> uuid,
             stored |-> stored, created |-> created]
    IN IF invalid # None
       THEN Out("ValueError", invalid, FALSE, FALSE, FALSE)
       ELSE IF ~is_valid_zip_content(file.content)
       THEN Out("ValueError", "Invalid ZIP file format or missing Obsidian files",
                FALSE, FALSE, FALSE)
       ELSE IF ~db THEN Out("DBError", "create_vault failed", TRUE, store, FALSE)
       ELSE Out("ok", None, TRUE, store, TRUE)

\* ---------------------------------------- inline strategy, lines 129 to 154
\* the way through validation, read, content check, store and create_vault:
\* what is raised (code, detail), whether uuid4 was called, whether the
\* archive was stored and whether the record was created
upload_outcome(file, store, db) ==
    LET invalid == validate_vault_file(file, MAX_VAULT_SIZE)
        Out(code, detail, uuid, stored, created) ==
            [code |-> code, detail |-> detail, uuid |-> uuid,
             stored |-> stored, created |-> created]
    IN IF invalid # None
       THEN Out("ValueError", invalid, FALSE, FALSE, FALSE)
       ELSE IF ~is_valid_zip_content(file.content)
       THEN Out("ValueError", "Invalid ZIP file format or missing Obsidian files",
                FALSE, FALSE, FALSE)
       ELSE IF ~store THEN Out("OSError", "store failed", TRUE, FALSE, FALSE)
       ELSE IF ~db THEN Out("DBError", "create_vault failed", TRUE, TRUE, FALSE)
       ELSE Out("ok", None, TRUE, TRUE, TRUE)

UploadAndProcess_Begin(file, store, db) ==
    /\ inl.pc = "idle"
    /\ calls < MaxCalls
    /\ calls' = calls + 1
    /\ LET o == upload_outcome(file, store, db)
           vault_id == IF o.uuid THEN nextId + 1 ELSE 0
       IN /\ nextId' = IF o.uuid THEN vault_id ELSE nextId
          /\ disk' = IF o.uuid
                     THEN store_vault_file(disk, vault_id, file.content, o.stored)
                     ELSE disk
          /\ vaults' = IF o.created
                       THEN [vaults EXCEPT ![vault_id] =
                               create_vault(file.filename, file.content.len,
                                            ZipPath(vault_id))]
                       ELSE vaults
          /\ inl' = IF o.created
                    THEN [IdleInline EXCEPT !.pc = "created", !.id = vault_id]
                    ELSE inl
          /\ resp' = IF o.created
                     THEN RespF("create_vault", "ok", None, vault_id, file)
                     ELSE RespF("upload_and_process_vault", o.code, o.detail,
                                vault_id, file)
    /\ UNCHANGED <<jobs, task, pool>>

\* line 159: file_info = self._process_vault_files(storage_path)
UploadAndProcess_Extract(io) ==
    /\ inl.pc = "created"
    /\ LET x == process_vault_files(disk, ZipPath(inl.id), io)
       IN /\ disk' = IF io
                     THEN [disk EXCEPT !.inline[inl.id] = @ \cup x.written]
                     ELSE disk
          /\ inl' = IF x.ok
                    THEN [inl EXCEPT !.pc = "extracted",
                                     !.file_count = x.file_count,
                                     !.file_info = x.file_info]
                    ELSE [inl EXCEPT !.pc = "except", !.exc = x.exc]
          /\ resp' = Resp("_process_vault_files",
                          IF x.ok THEN "ok" ELSE x.exc, None, inl.id)
    /\ UNCHANGED <<vaults, jobs, nextId, task, calls, pool>>

\* lines 162 to 180: the COMPLETED update and the success summary
UploadAndProcess_Complete(db) ==
    /\ inl.pc = "extracted"
    /\ IF db
       THEN /\ vaults' = update_vault_status(vaults, inl.id, "completed", None,
                                             inl.file_count, inl.file_count)
            /\ inl' = IdleInline
            /\ resp' = Resp("upload_and_process_vault", "return", "completed", inl.id)
       ELSE /\ inl' = [inl EXCEPT !.pc = "except", !.exc = "DBError"]
            /\ resp' = Resp("update_vault_status", "DBError", None, inl.id)
            /\ UNCHANGED vaults
    /\ UNCHANGED <<jobs, disk, nextId, task, calls, pool>>

\* lines 182 to 191: the FAILED update, then raise ValueError
UploadAndProcess_Except(db) ==
    /\ inl.pc = "except"
    /\ IF db
       THEN /\ vaults' = update_vault_status(vaults, inl.id, "failed", inl.exc,
                                             NoCount, NoCount)
            /\ resp' = Resp("upload_and_process_vault", "ValueError", inl.exc, inl.id)
       ELSE /\ resp' = Resp("upload_and_process_vault", "DBError", inl.exc, inl.id)
            /\ UNCHANGED vaults
    /\ inl' = IdleInline
    /\ UNCHANGED <<jobs, disk, nextId, task, calls, pool>>

\* ------------------------------------------------ queued strategy (Celery)
\* task.pc is the position of the running attempt, or the state of the
\* task's result once it has ended (SUCCESS, FAILURE); task.steps lists the
\* steps the current attempt has run and task.failed_at the one that raised
Ended(t) == t.pc \in {"idle", "SUCCESS", "FAILURE"}

Ran(t, step) == [t EXCEPT !.steps = Append(@, step)]

\* a mutant of the raise: the exception is swallowed and the attempt goes
\* on to the COMPLETED update
Raised_swallowed(t, step, exc) ==
    [Ran(t, step) EXCEPT !.pc = "complete", !.exc = exc, !.failed_at = step]

\* an exception raised in the try block of process_vault: control passes to
\* the handler of line 94
Raised(t, step, exc) ==
    [Ran(t, step) EXCEPT !.pc = "handler", !.exc = exc, !.failed_at = step]

\* process_vault.delay(vault_id): any caller, any id
Dispatch(vault_id) ==
    /\ Ended(task)
    /\ calls < MaxCalls
    /\ calls' = calls + 1
    /\ task' = [IdleTask EXCEPT !.pc = "queued", !.vault_id = vault_id]
    /\ UNCHANGED <<vaults, jobs, disk, nextId, inl, resp, pool>>

StatusOutcomes == {"ok", "fail_status", "fail_job"}

\* process_vault, lines 26 to 44: status PROCESSING, then the job record;
\* each of the two commits may fail
PV_Status(out) ==
    /\ task.pc = "queued"
    /\ IF ~Exists(vaults, task.vault_id)
       THEN /\ task' = Raised(task, "status", "Vault not found")
            /\ UNCHANGED <<vaults, jobs>>
       ELSE IF out = "fail_status"
       THEN /\ task' = Raised(task, "status", "DBError")
            /\ UNCHANGED <<vaults, jobs>>
       ELSE /\ vaults' = [vaults EXCEPT ![task.vault_id].status = "processing"]
            /\ IF out = "fail_job"
               THEN /\ task' = Raised(task, "status", "DBError")
                    /\ UNCHANGED jobs
               ELSE /\ jobs' = Append(jobs, [vault_id |-> task.vault_id,
                                             status |-> "running"])
                    /\ task' = [Ran(task, "status") EXCEPT
                                   !.pc = "extract", !.job_id = Len(jobs) + 1]
    /\ UNCHANGED <<disk, nextId, inl, calls, resp, pool>>

\* extract_vault_files, lines 114 to 172: extraction into
\* dirname(storage_path)/extracted
extract_vault_files(tbl, d, vault_id, io) ==
    IF ~Exists(tbl, vault_id)
    THEN [ok |-> FALSE, exc |-> "Vault not found", written |-> {}, file_count |-> 0]
    ELSE ExtractInto(d.shared, ArchiveAt(d, tbl[vault_id].storage_path), io)

\* process_vault, lines 46 to 52: extract_vault_files.delay(vault_id).get()
PV_Extract(io) ==
    /\ task.pc = "extract"
    /\ LET x == extract_vault_files(vaults, disk, task.vault_id, io)
       IN /\ disk' = [disk EXCEPT !.shared = @ \cup x.written]
          /\ task' = IF x.ok
                     THEN [Ran(task, "extract") EXCEPT
                              !.pc = "analyze", !.file_count = x.file_count,
                              !.file_info = x.file_info]
                     ELSE Raised(task, "extract", x.exc)
    /\ UNCHANGED <<vaults, jobs, nextId, inl, calls, resp, pool>>

\* process_vault, lines 54 to 60: analyze_vault_content.delay(...).get();
\* ok = FALSE is a sub-task that ends in failure
PV_Analyze(ok) ==
    /\ task.pc = "analyze"
    /\ task' = IF ok THEN [Ran(task, "analyze") EXCEPT !.pc = "complete"]
               ELSE Raised(task, "analyze", "AnalysisError")
    /\ UNCHANGED <<vaults, jobs, disk, nextId, inl, calls, resp, pool>>

\* process_vault, lines 62 to 92: COMPLETED with the counts, job COMPLETED
PV_Complete(db) ==
    /\ task.pc = "complete"
    /\ IF ~Exists(vaults, task.vault_id)
       THEN /\ task' = Raised(task, "complete", "AttributeError")
            /\ UNCHANGED <<vaults, jobs>>
       ELSE IF ~db
       THEN /\ task' = Raised(task, "complete", "DBError")
            /\ UNCHANGED <<vaults, jobs>>
       ELSE /\ vaults' = [vaults EXCEPT ![task.vault_id] =
                            [@ EXCEPT !.status = "completed",
                                      !.file_count = task.file_count,
                                      !.processed_files = task.file_count]]
            /\ jobs' = [jobs EXCEPT ![task.job_id].status = "completed"]
            /\ task' = [Ran(task, "complete") EXCEPT !.pc = "SUCCESS"]
    /\ UNCHANGED <<disk, nextId, inl, calls, resp, pool>>

\* Task.retry: the task is sent again while request.retries + 1 does not
\* exceed max_retries, otherwise the exception is raised
retry(t) ==
    IF t.retries + 1 > max_retries THEN [t EXCEPT !.pc = "FAILURE"]
    ELSE [IdleTask EXCEPT !.pc = "queued", !.vault_id = t.vault_id,
                          !.retries = t.retries + 1]

\* process_vault, lines 94 to 105: FAILED with str(e), then self.retry
PV_Handler(db) ==
    /\ task.pc = "handler"
    /\ IF Exists(vaults, task.vault_id) /\ ~db
       THEN /\ task' = [Ran(task, "handler") EXCEPT !.pc = "FAILURE",
                                                    !.exc = "DBError"]
            /\ UNCHANGED vaults
       ELSE /\ vaults' = IF Exists(vaults, task.vault_id)
                         THEN [vaults EXCEPT ![task.vault_id] =
                                 [@ EXCEPT !.status = "failed",
                                           !.error_message = task.exc]]
                         ELSE vaults
            /\ task' = retry(Ran(task, "handler"))
    /\ UNCHANGED <<jobs, disk, nextId, inl, calls, resp, pool>>

\* ------------------------------------------------------- the upload endpoint
\* VaultService(db) at line 44 of the router: the constructor takes db and
\* storage_path, so the call raises TypeError outside of the try block
VaultServiceRaises == RouterInitArgs # VaultServiceInitArgs

\* upload_vault, lines 23 to 101: the status code and detail of the answer,
\* whether uuid4 was called, whether the archive was unzipped and whether the
\* record was created. A raise inside the try block (an HTTPException
\* included) is caught at line 99 and answered with 500
endpoint_outcome(file, io, db) ==
    LET Out(code, detail, uuid, unzip, created) ==
            [code |-> code, detail |-> detail, uuid |-> uuid,
             unzip |-> unzip, created |-> created]
        x == Extract(file.content, io)
    IN IF file.filename = << >> \/ ~EndsWith(file.filename, DotZip)
       THEN Out("400", "Only ZIP files are supported", FALSE, FALSE, FALSE)
       ELSE IF file.size # 0 /\ file.size > MAX_VAULT_SIZE
       THEN Out("400", "File size exceeds maximum limit", FALSE, FALSE, FALSE)
       ELSE IF VaultServiceRaises
       THEN Out("500", "Internal server error", FALSE, FALSE, FALSE)
       ELSE IF ~is_valid_zip(file.content)
       THEN Out("500", "Failed to upload vault", FALSE, FALSE, FALSE)
       ELSE IF ~x.ok THEN Out("500", "Failed to upload vault", TRUE, io, FALSE)
       ELSE IF ~db THEN Out("500", "Failed to upload vault", TRUE, TRUE, FALSE)
       ELSE Out("200", "uploaded", TRUE, TRUE, TRUE)

upload_vault(file, io, db) ==
    /\ calls < MaxCalls
    /\ calls' = calls + 1
    /\ LET o == endpoint_outcome(file, io, db)
           vault_id == IF o.uuid THEN nextId + 1 ELSE 0
       IN /\ nextId' = IF o.uuid THEN vault_id ELSE nextId
          /\ disk' = IF o.unzip
                     THEN [disk EXCEPT !.unzipped[vault_id] =
                             @ \cup Extract(file.content, io).written]
                     ELSE disk
          /\ vaults' = IF o.created
                       THEN [vaults EXCEPT ![vault_id] =
                               create_vault(file.filename, file.content.len,
                                            DirPath(vault_id))]
                       ELSE vaults
          /\ resp' = RespF("upload_vault", o.code, o.detail, vault_id, file)
    /\ UNCHANGED <<jobs, inl, task, pool>>

\* ------------------------------------------------------------- delete_vault
\* a mutant of delete_vault: a failing rmtree is not caught and ends the call
delete_vault_rmtree_raises(vault_id, rm, db) ==
    /\ calls < MaxCalls
    /\ calls' = calls + 1
    /\ IF ~Exists(vaults, vault_id)
       THEN /\ resp' = Resp("delete_vault", "return", "False", vault_id)
            /\ UNCHANGED <<vaults, disk>>
       ELSE IF ~rm
       THEN /\ resp' = Resp("delete_vault", "OSError", None, vault_id)
            /\ UNCHANGED <<vaults, disk>>
       ELSE /\ disk' = EmptyDisk
            /\ IF db
               THEN /\ vaults' = [vaults EXCEPT ![vault_id] = NoVault]
                    /\ resp' = Resp("delete_vault", "return", "True", vault_id)
               ELSE /\ resp' = Resp("delete_vault", "DBError", None, vault_id)
                    /\ UNCHANGED vaults
    /\ UNCHANGED <<jobs, nextId, inl, task, pool>>

\* VaultService.delete_vault: shutil.rmtree(os.path.dirname(storage_path)) is
\* the storage directory itself; rm = FALSE is a failing rmtree (logged)
delete_vault(vault_id, rm, db) ==
    /\ calls < MaxCalls
    /\ calls' = calls + 1
    /\ IF ~Exists(vaults, vault_id)
       THEN /\ resp' = Resp("delete_vault", "return", "False", vault_id)
            /\ UNCHANGED <<vaults, disk>>
       ELSE /\ disk' = IF rm THEN EmptyDisk ELSE disk
            /\ IF db
               THEN /\ vaults' = [vaults EXCEPT ![vault_id] = NoVault]
                    /\ resp' = Resp("delete_vault", "return", "True", vault_id)
               ELSE /\ resp' = Resp("delete_vault", "DBError", None, vault_id)
                    /\ UNCHANGED vaults
    /\ UNCHANGED <<jobs, nextId, inl, task, pool>>

\* ---------------------------------------------------- get_vault, get_vaults
\* VaultService.get_vault: the record, or None; db = FALSE is a failing query
get_vault(vault_id, db) ==
    /\ resp' = IF ~db THEN Resp("get_vault", "DBError", None, vault_id)
               ELSE IF Exists(vaults, vault_id)
               THEN Resp("get_vault", "return", "Vault", vault_id)
               ELSE Resp("get_vault", "return", None, vault_id)
    /\ UNCHANGED <<vaults, jobs, disk, nextId, inl, task, calls, pool>>

\* VaultService.get_vaults: the ids of the records that are listed
get_vaults(tbl) == {i \in Ids : Exists(tbl, i)}

\* --------------------------------------------- the get and delete endpoints
\* GET /{vault_id}: VaultService(db) at line 121 raises TypeError, which the
\* handler of main.py answers with 500; None is answered with 404
router_get_vault(vault_id, db) ==
    /\ resp' = IF VaultServiceRaises \/ ~db
               THEN Resp("GET", "500", "Internal server error", vault_id)
               ELSE IF Exists(vaults, vault_id)
               THEN Resp("GET", "200", "Vault", vault_id)
               ELSE Resp("GET", "404", "Vault not found", vault_id)
    /\ UNCHANGED <<vaults, jobs, disk, nextId, inl, task, calls, pool>>

\* DELETE /{vault_id}: VaultService(db) at line 136, then delete_vault of
\* the service; False is answered with 404
router_delete_vault(vault_id, rm, db) ==
    /\ calls < MaxCalls
    /\ calls' = calls + 1
    /\ IF VaultServiceRaises
       THEN /\ resp' = Resp("DELETE", "500", "Internal server error", vault_id)
            /\ UNCHANGED <<vaults, disk>>
       ELSE IF ~Exists(vaults, vault_id)
       THEN /\ resp' = Resp("DELETE", "404", "Vault not found", vault_id)
            /\ UNCHANGED <<vaults, disk>>
       ELSE /\ disk' = IF rm THEN EmptyDisk ELSE disk
            /\ IF db
               THEN /\ vaults' = [vaults EXCEPT ![vault_id] = NoVault]
                    /\ resp' = Resp("DELETE", "200",
                                    "Vault deleted successfully", vault_id)
               ELSE /\ resp' = Resp("DELETE", "500", "Internal server error",
                                    vault_id)
                    /\ UNCHANGED vaults
    /\ UNCHANGED <<jobs, nextId, inl, task, pool>>

\* ------------------------------------------------------------ specification
\* the ids a caller can pass: those that uploads were given, and 0 for an id
\* that no vault has
KnownIds == 0..nextId

\* the uploads that pass validation
AcceptedFiles ==
    {File(FN_zip, 10, p) : p \in {P_good, P_evil, P_badcrc, P_folder}}

InlineStep(files) ==
    \/ \E file \in files, store \in BOOLEAN, db \in BOOLEAN :
          UploadAndProcess_Begin(file, store, db)
    \/ \E io \in BOOLEAN : UploadAndProcess_Extract(io)
    \/ \E db \in BOOLEAN : UploadAndProcess_Complete(db)
    \/ \E db \in BOOLEAN : UploadAndProcess_Except(db)

QueuedStep ==
    \/ \E vault_id \in KnownIds : Dispatch(vault_id)
    \/ \E out \in StatusOutcomes : PV_Status(out)
    \/ \E io \in BOOLEAN : PV_Extract(io)
    \/ \E ok \in BOOLEAN : PV_Analyze(ok)
    \/ \E db \in BOOLEAN : PV_Complete(db)
    \/ \E db \in BOOLEAN : PV_Handler(db)

DeleteStep ==
    \E vault_id \in KnownIds, rm \in BOOLEAN, db \in BOOLEAN :
        delete_vault(vault_id, rm, db)

EndpointStep ==
    \E file \in UploadFiles, io \in BOOLEAN, db \in BOOLEAN :
        upload_vault(file, io, db)

ReadStep == \E vault_id \in KnownIds, db \in BOOLEAN : get_vault(vault_id, db)

RouterStep ==
    \/ \E vault_id \in KnownIds, db \in BOOLEAN : router_get_vault(vault_id, db)
    \/ \E vault_id \in KnownIds, rm \in BOOLEAN, db \in BOOLEAN :
          router_delete_vault(vault_id, rm, db)

\* the ingestion pipeline: both strategies and delete on one vault table,
\* fed with the uploads that pass validation
Next == InlineStep(AcceptedFiles) \/ QueuedStep \/ DeleteStep

Spec == Init /\ [][Next]_vars

\* the callers' interface: the endpoints and the calls of the service, fed
\* with every upload
NextApi ==
    EndpointStep \/ InlineStep(UploadFiles) \/ DeleteStep \/ ReadStep \/ RouterStep

SpecApi == Init /\ [][NextApi]_vars

\* every step of a call or of a task that was started is taken in the end;
\* nothing obliges a caller to upload, dispatch or delete
StartedSteps ==
    \/ \E io \in BOOLEAN : UploadAndProcess_Extract(io)
    \/ \E db \in BOOLEAN : UploadAndProcess_Complete(db)
    \/ \E db \in BOOLEAN : UploadAndProcess_Except(db)
    \/ \E out \in StatusOutcomes : PV_Status(out)
    \/ \E io \in BOOLEAN : PV_Extract(io)
    \/ \E ok \in BOOLEAN : PV_Analyze(ok)
    \/ \E db \in BOOLEAN : PV_Complete(db)
    \/ \E db \in BOOLEAN : PV_Handler(db)

SpecLive == Init /\ [][Next]_vars /\ WF_vars(StartedSteps)

\* ------------------------------------- update_vault_status called directly
\* the arguments a caller passes: None and NoCount stand for an argument
\* that is left out
StatusArgs == {"completed", "failed"}
MessageArgs == {None, "boom"}
FileCountArgs == {NoCount, 0}
ProcessedArgs == {NoCount, 2}

\* a call of VaultService.update_vault_status; db = FALSE is a query or a
\* commit that raises
UpdateVaultStatus(vault_id, status, error_message, file_count, processed_files, db) ==
    /\ calls < MaxCalls
    /\ calls' = calls + 1
    /\ vaults' = IF db
                 THEN update_vault_status(vaults, vault_id, status, error_message,
                                          file_count, processed_files)
                 ELSE vaults
    /\ resp' = IF ~db THEN Resp("update_vault_status", "DBError", None, vault_id)
               ELSE IF Exists(vaults, vault_id)
               THEN Resp("update_vault_status", "return", "Vault", vault_id)
               ELSE Resp("update_vault_status", "return", None, vault_id)
    /\ UNCHANGED <<jobs, disk, nextId, inl, task, pool>>

\* any set of records as create_vault leaves them, their archives stored
InitUpdate ==
    \E created \in SUBSET Ids :
       /\ vaults = [i \in Ids |->
                      IF i \in created
                      THEN create_vault(FN_zip, P_good.len, ZipPath(i))
                      ELSE NoVault]
       /\ jobs = << >>
       /\ disk = [EmptyDisk EXCEPT
                    !.zips = [i \in Ids |-> IF i \in created THEN P_good ELSE NoFile]]
       /\ nextId = MaxCalls
       /\ inl = IdleInline
       /\ task = IdleTask
       /\ calls = 0
       /\ resp = Resp("init", "ok", None, 0)
       /\ pool = IdlePool

NextUpdate ==
    \E vault_id \in KnownIds, status \in StatusArgs, error_message \in MessageArgs,
       file_count \in FileCountArgs, processed_files \in ProcessedArgs,
       db \in BOOLEAN :
          UpdateVaultStatus(vault_id, status, error_message, file_count,
                            processed_files, db)

SpecUpdate == InitUpdate /\ [][NextUpdate]_vars

\* ------------------------------------------- the two strategies side by side
\* the archives both strategies are run on, and what earlier runs of
\* extract_vault_files may have left in <storage>/extracted
EquivArchives == {P_good, P_evil, P_badcrc, P_attach, P_folder, P_hidden}
Leftovers ==
    {{}} \cup {ExtractAllInto({}, p.entries).written : p \in EquivArchives}

InlineId == 1
QueuedId == 2

\* two records as create_vault leaves them, UPLOADED and with the same
\* archive stored: upload_and_process_vault is about to process the first
\* (line 156), process_vault has been sent for the second
InitEquiv ==
    \E archive \in EquivArchives, leftover \in Leftovers :
       /\ vaults = [i \in Ids |->
                      IF i \in {InlineId, QueuedId}
                      THEN create_vault(FN_zip, archive.len, ZipPath(i))
                      ELSE NoVault]
       /\ jobs = << >>
       /\ disk = [EmptyDisk EXCEPT !.zips[InlineId] = archive,
                                   !.zips[QueuedId] = archive,
                                   !.shared = leftover]
       /\ nextId = QueuedId
       /\ inl = [IdleInline EXCEPT !.pc = "created", !.id = InlineId]
       /\ task = [IdleTask EXCEPT !.pc = "queued", !.vault_id = QueuedId]
       /\ calls = MaxCalls
       /\ resp = Resp("create_vault", "ok", None, InlineId)
       /\ pool = IdlePool

\* the steps of both strategies in an environment where no database call,
\* no makedirs and no sub-task fails
NextEquiv ==
    \/ UploadAndProcess_Extract(TRUE)
    \/ UploadAndProcess_Complete(TRUE)
    \/ UploadAndProcess_Except(TRUE)
    \/ PV_Status("ok")
    \/ PV_Extract(TRUE)
    \/ PV_Analyze(TRUE)
    \/ PV_Complete(TRUE)
    \/ PV_Handler(TRUE)

SpecEquiv == InitEquiv /\ [][NextEquiv]_vars

\* ------------------------------------------- two vaults in one storage root
\* the archives of the two vaults
PairArchives == {P_good, P_attach, P_hidden}

\* two records as create_vault leaves them, each with its own archive
\* stored; upload_and_process_vault may be about to process the first
\* (line 156)
InitPair ==
    \E first \in PairArchives, second \in PairArchives, inflight \in BOOLEAN :
       /\ vaults = [i \in Ids |->
                      IF i = InlineId
                      THEN create_vault(FN_zip, first.len, ZipPath(i))
                      ELSE IF i = QueuedId
                      THEN create_vault(FN_zip, second.len, ZipPath(i))
                      ELSE NoVault]
       /\ jobs = << >>
       /\ disk = [EmptyDisk EXCEPT !.zips[InlineId] = first,
                                   !.zips[QueuedId] = second]
       /\ nextId = QueuedId
       /\ inl = IF inflight
                THEN [IdleInline EXCEPT !.pc = "created", !.id = InlineId]
                ELSE IdleInline
       /\ task = IdleTask
       /\ calls = 0
       /\ resp = Resp("create_vault", "ok", None, QueuedId)
       /\ pool = IdlePool

\* the ingestion steps of both strategies where no database call, no
\* makedirs and no sub-task fails, with process_vault sent for any id,
\* delete_vault and update_vault_status (of the status alone) called at any
\* moment
NextPair ==
    \/ UploadAndProcess_Extract(TRUE)
    \/ UploadAndProcess_Complete(TRUE)
    \/ UploadAndProcess_Except(TRUE)
    \/ \E vault_id \in KnownIds : Dispatch(vault_id)
    \/ PV_Status("ok")
    \/ PV_Extract(TRUE)
    \/ PV_Analyze(TRUE)
    \/ PV_Complete(TRUE)
    \/ PV_Handler(TRUE)
    \/ DeleteStep
    \/ \E vault_id \in KnownIds, status \in StatusArgs :
          UpdateVaultStatus(vault_id, status, None, NoCount, NoCount, TRUE)

SpecPair == InitPair /\ [][NextPair]_vars

\* -------------------------------------------- the analysis of a note list
\* the notes of a vault, and the texts a note may hold
NotePaths == {N_note, N_sub, N_cfgnote}
T_heading == <<"#", " ", "T", "\n", "x">>
T_indented == <<" ", "#", " ", "U">>
T_plain == <<"x">>
T_empty == << >>
ReadOutcomes == {Unreadable} \cup {Text(t) : t \in {T_heading, T_indented, T_plain, T_empty}}

\* the note lists extract_vault_files may return: up to MaxNotes notes, each
\* listed once, in any order
NoteLists ==
    {l \in UNION {[1..n -> NotePaths] : n \in 0..MaxNotes} :
        \A i \in 1..Len(l), j \in 1..Len(l) : i # j => l[i] # l[j]}

\* process_vault, line 60, with the sub-task run on the note list:
\* analyze_vault_content.delay(vault_id, file_info).get()
AnalyzeVaultContent(reads) ==
    /\ task.pc = "analyze"
    /\ LET r == analyze_vault_content(task.file_info.markdown_files, reads)
       IN task' = IF r.ok
                  THEN [Ran(task, "analyze") EXCEPT
                           !.pc = "complete",
                           !.analysis =
                               [total_content_length |-> r.total_content_length,
                                note_titles |-> r.note_titles,
                                average_note_length |-> r.average_note_length]]
                  ELSE Raised(task, "analyze", r.exc)
    /\ UNCHANGED <<vaults, jobs, disk, nextId, inl, calls, resp, pool>>

\* process_vault has run its status step and its extraction for a record,
\* and extract_vault_files has returned a note list
InitAnalyze ==
    \E markdown_files \in NoteLists :
       /\ vaults = [i \in Ids |->
                      IF i = QueuedId
                      THEN [create_vault(FN_zip, P_good.len, ZipPath(i))
                               EXCEPT !.status = "processing"]
                      ELSE NoVault]
       /\ jobs = <<[vault_id |-> QueuedId, status |-> "running"]>>
       /\ disk = [EmptyDisk EXCEPT !.zips[QueuedId] = P_good,
                                   !.shared = {markdown_files[i] :
                                                  i \in 1..Len(markdown_files)}]
       /\ nextId = QueuedId
       /\ inl = IdleInline
       /\ task = [IdleTask EXCEPT
                     !.pc = "analyze", !.vault_id = QueuedId, !.job_id = 1,
                     !.file_count = Len(markdown_files),
                     !.file_info = [NoFileInfo EXCEPT
                                      !.markdown_files = markdown_files],
                     !.steps = <<"status", "extract">>]
       /\ calls = MaxCalls
       /\ resp = Resp("init", "ok", None, 0)
       /\ pool = IdlePool

NextAnalyze ==
    \/ \E reads \in [1..Len(task.file_info.markdown_files) -> ReadOutcomes] :
          AnalyzeVaultContent(reads)
    \/ PV_Complete(TRUE)

SpecAnalyze == InitAnalyze /\ [][NextAnalyze]_vars

\* ------------------------------------ the queued pipeline on its worker pool
\* All three tasks are routed to the one queue vault_processing, served by a
\* worker of MAX_CONCURRENT_TASKS slots; a slot runs one task at a time and
\* takes the oldest message when it is free (worker_prefetch_multiplier=1).
Slots == 1..MAX_CONCURRENT_TASKS

\* what result.get() does inside of a task: it blocks until the sub-task has
\* ended, or it raises RuntimeError at once (the guard of the library
\* against synchronous sub-tasks), depending on the worker that runs it;
\* pool.sync is what this worker does
SyncOutcomes == {"blocks", "raises"}

\* parent is the slot of the task that sent the message and waits for its
\* result, 0 for a message no task waits for
Message(name, vault_id, retries, parent) ==
    [name |-> name, vault_id |-> vault_id, retries |-> retries, parent |-> parent]

\* apply_async: the message is put on the queue
Send(p, msg) == [p EXCEPT !.queue = Append(@, msg)]

Release(p, w) == [p EXCEPT !.slots[w] = Free]

Waiting(slot) == slot.pc \in {"wait_extract", "wait_analyze"}

\* process_vault.delay(vault_id): any caller, any id
PoolDispatch(vault_id) ==
    /\ calls < MaxCalls
    /\ calls' = calls + 1
    /\ pool' = Send(pool, Message("process_vault", vault_id, 0, 0))
    /\ UNCHANGED <<vaults, jobs, disk, nextId, inl, task, resp>>

\* a free slot takes the oldest message of the queue
WorkerTake(w) ==
    /\ pool.slots[w] = Free
    /\ pool.queue # << >>
    /\ LET msg == Head(pool.queue)
       IN pool' = [pool EXCEPT
                     !.queue = Tail(@),
                     !.slots[w] = [Free EXCEPT !.name = msg.name,
                                               !.vault_id = msg.vault_id,
                                               !.retries = msg.retries,
                                               !.parent = msg.parent,
                                               !.pc = "run"]]
    /\ UNCHANGED <<vaults, jobs, disk, nextId, inl, task, calls, resp>>

\* process_vault, lines 26 to 52, in slot w: status PROCESSING, the job
\* record, then extract_vault_files.delay(vault_id).get()
PoolStatus(w) ==
    /\ pool.slots[w].name = "process_vault"
    /\ pool.slots[w].pc = "run"
    /\ LET slot == pool.slots[w]
       IN IF ~Exists(vaults, slot.vault_id)
          THEN /\ pool' = [pool EXCEPT !.slots[w].pc = "handler",
                                       !.slots[w].exc = "Vault not found"]
               /\ UNCHANGED <<vaults, jobs>>
          ELSE /\ vaults' = [vaults EXCEPT ![slot.vault_id].status = "processing"]
               /\ jobs' = Append(jobs, [vault_id |-> slot.vault_id,
                                        status |-> "running"])
               /\ pool' = [Send(pool, Message("extract_vault_files",
                                              slot.vault_id, 0, w))
                             EXCEPT
                               !.slots[w].job_id = Len(jobs) + 1,
                               !.slots[w].pc = IF pool.sync = "blocks"
                                               THEN "wait_extract" ELSE "handler",
                               !.slots[w].exc = IF pool.sync = "blocks"
                                                THEN None ELSE "RuntimeError"]
    /\ UNCHANGED <<disk, nextId, inl, task, calls, resp>>

\* the slot of the task that waits for the result of a sub-task sent from
\* slot parent, or 0 when that task did not wait
WaiterOf(p, parent) ==
    IF parent \in Slots /\ Waiting(p.slots[parent]) THEN parent ELSE 0

\* the result of a sub-task is stored; the task that waits for it sees it
Deliver(p, w, result, exc, file_count) ==
    LET v == WaiterOf(p, p.slots[w].parent)
    IN IF v = 0 THEN Release(p, w)
       ELSE [Release(p, w) EXCEPT !.slots[v].result = result,
                                  !.slots[v].exc = exc,
                                  !.slots[v].file_count = file_count]

\* extract_vault_files run in slot w
PoolExtract(w) ==
    /\ pool.slots[w].name = "extract_vault_files"
    /\ LET x == extract_vault_files(vaults, disk, pool.slots[w].vault_id, TRUE)
       IN /\ disk' = [disk EXCEPT !.shared = @ \cup x.written]
          /\ pool' = Deliver(pool, w, IF x.ok THEN "SUCCESS" ELSE "FAILURE",
                             x.exc, x.file_count)
    /\ UNCHANGED <<vaults, jobs, nextId, inl, task, calls, resp>>

\* analyze_vault_content run in slot w
PoolAnalyze(w) ==
    /\ pool.slots[w].name = "analyze_vault_content"
    /\ pool' = Deliver(pool, w, "SUCCESS", None,
                       IF WaiterOf(pool, pool.slots[w].parent) = 0 THEN 0
                       ELSE pool.slots[WaiterOf(pool, pool.slots[w].parent)].file_count)
    /\ UNCHANGED <<vaults, jobs, disk, nextId, inl, task, calls, resp>>

\* process_vault, lines 52 to 60: get() of the extraction returns or raises,
\* then analyze_vault_content.delay(vault_id, file_info).get()
PoolGetExtract(w) ==
    /\ pool.slots[w].pc = "wait_extract"
    /\ pool.slots[w].result # None
    /\ LET slot == pool.slots[w]
       IN pool' = IF slot.result = "FAILURE"
                  THEN [pool EXCEPT !.slots[w].pc = "handler"]
                  ELSE [Send(pool, Message("analyze_vault_content",
                                           slot.vault_id, 0, w))
                          EXCEPT
                            !.slots[w].result = None,
                            !.slots[w].pc = IF pool.sync = "blocks"
                                            THEN "wait_analyze" ELSE "handler",
                            !.slots[w].exc = IF pool.sync = "blocks"
                                             THEN None ELSE "RuntimeError"]
    /\ UNCHANGED <<vaults, jobs, disk, nextId, inl, task, calls, resp>>

\* process_vault, lines 60 to 92: get() of the analysis returns, then the
\* COMPLETED update of the vault and of the job
PoolComplete(w) ==
    /\ pool.slots[w].pc = "wait_analyze"
    /\ pool.slots[w].result # None
    /\ LET slot == pool.slots[w]
       IN IF ~Exists(vaults, slot.vault_id)
          THEN /\ pool' = [pool EXCEPT !.slots[w].pc = "handler",
                                       !.slots[w].exc = "AttributeError"]
               /\ UNCHANGED <<vaults, jobs>>
          ELSE /\ vaults' = [vaults EXCEPT ![slot.vault_id] =
                               [@ EXCEPT !.status = "completed",
                                         !.file_count = slot.file_count,
                                         !.processed_files = slot.file_count]]
               /\ jobs' = [jobs EXCEPT ![slot.job_id].status = "completed"]
               /\ pool' = Release(pool, w)
    /\ UNCHANGED <<disk, nextId, inl, task, calls, resp>>

\* process_vault, lines 94 to 105: FAILED with str(e), then self.retry,
\* which sends the task again or, after max_retries, ends it
PoolHandler(w) ==
    /\ pool.slots[w].pc = "handler"
    /\ LET slot == pool.slots[w]
       IN /\ vaults' = IF Exists(vaults, slot.vault_id)
                       THEN [vaults EXCEPT ![slot.vault_id] =
                               [@ EXCEPT !.status = "failed",
                                         !.error_message = slot.exc]]
                       ELSE vaults
          /\ pool' = IF slot.retries + 1 > max_retries
                     THEN Release(pool, w)
                     ELSE Send(Release(pool, w),
                               Message("process_vault", slot.vault_id,
                                       slot.retries + 1, 0))
    /\ UNCHANGED <<jobs, disk, nextId, inl, task, calls, resp>>

\* what a worker does once something was sent: every step but the dispatch
WorkerSteps ==
    \E w \in Slots :
       \/ WorkerTake(w)
       \/ PoolStatus(w)
       \/ PoolExtract(w)
       \/ PoolAnalyze(w)
       \/ PoolGetExtract(w)
       \/ PoolComplete(w)
       \/ PoolHandler(w)

\* two records as create_vault leaves them, their archives stored, and a
\* worker with nothing to do
InitPool ==
    /\ vaults = [i \in Ids |->
                   IF i \in {InlineId, QueuedId}
                   THEN create_vault(FN_zip, P_good.len, ZipPath(i))
                   ELSE NoVault]
    /\ jobs = << >>
    /\ disk = [EmptyDisk EXCEPT !.zips[InlineId] = P_good,
                                !.zips[QueuedId] = P_good]
    /\ nextId = QueuedId
    /\ inl = IdleInline
    /\ task = IdleTask
    /\ calls = 0
    /\ resp = Resp("init", "ok", None, 0)
    /\ \E sync \in SyncOutcomes : pool = [IdlePool EXCEPT !.sync = sync]

NextPool ==
    \/ \E vault_id \in KnownIds : PoolDispatch(vault_id)
    \/ WorkerSteps

\* every step of the worker that can be taken is taken in the end; nothing
\* obliges a caller to dispatch
SpecPool == InitPool /\ [][NextPool]_vars /\ WF_vars(WorkerSteps)

\* ------------------------------------------------------------------ claims
Status(i) == vaults[i].status

\* C1: once a vault id reads FAILED, no later read of that id shows
\* PROCESSING or COMPLETED.
C1_FailedNeverMovesOn ==
    [][\A i \in Ids :
          Status(i) = "failed" => vaults'[i].status \notin {"processing", "completed"}]_vars

\* C2: COMPLETED is absorbing: no step of the inline or of the queued
\* strategy changes the status of a COMPLETED record (delete_vault, which is
\* of neither strategy, may remove the record).
C2_CompletedAbsorbing ==
    [][\A i \in Ids :
          Status(i) = "completed" => vaults'[i].status \in {"completed", "absent"}]_vars

\* C3: in every reachable state of every vault record, error_message is set
\* if and only if the status is FAILED.
C3_ErrorMessageIffFailed ==
    \A i \in Ids :
        Exists(vaults, i) =>
            ((vaults[i].error_message # None) <=> (Status(i) = "failed"))

\* the step is a call of upload_and_process_vault / of the endpoint with file
ServiceUpload(file) ==
    \E store \in BOOLEAN, db \in BOOLEAN : UploadAndProcess_Begin(file, store, db)

EndpointUpload(file) ==
    \E io \in BOOLEAN, db \in BOOLEAN : upload_vault(file, io, db)

OnlyZip == "Only ZIP files are supported"
InvalidZip == "Invalid ZIP file format or missing Obsidian files"

BadName(file) == file.filename = << >> \/ ~EndsWith(file.filename, DotZip)
TooLarge(file) == file.size # 0 /\ file.size > MAX_VAULT_SIZE

C5_ValidationFailuresAre400 ==
    [][\A file \in UploadFiles :
          (BadName(file) \/ TooLarge(file) \/ ~is_valid_zip(file.content))
              /\ EndpointUpload(file)
          => resp'.code = "400"]_vars

\* C6: an upload whose filename is missing or does not end in ".zip" is
\* refused with "Only ZIP files are supported" (HTTP 400 at the endpoint, a
\* ValueError in the service), whatever its content, and nothing is stored,
\* no id is drawn and no record is created.
C6_NonZipNameRejected ==
    [][\A file \in UploadFiles :
          BadName(file) =>
             /\ EndpointUpload(file) =>
                   /\ resp'.code = "400" /\ resp'.detail = OnlyZip
                   /\ UNCHANGED <<vaults, disk, nextId, inl>>
             /\ ServiceUpload(file) =>
                   /\ resp'.code = "ValueError" /\ resp'.detail = OnlyZip
                   /\ UNCHANGED <<vaults, disk, nextId, inl>>]_vars

\* the endpoint has just answered 400 to test.txt
C6_Witness ==
    /\ resp.op = "upload_vault"
    /\ resp.file.filename = FN_txt
    /\ resp.code = "400" /\ resp.detail = OnlyZip
    /\ \A i \in Ids : ~Exists(vaults, i)

\* the upload gets as far as storing its bytes
ReachesStore(file) ==
    ~BadName(file) /\ ~TooLarge(file) /\ is_valid_zip_content(file.content)

\* C9: when storing the uploaded bytes fails, the call ends with an error and
\* the vaults table is unchanged; a record only ever appears in a step that
\* leaves its archive stored.
C9_FailedStoreCreatesNoRecord ==
    [][/\ \A file \in UploadFiles, db \in BOOLEAN :
             ReachesStore(file) =>
                /\ UploadAndProcess_Begin(file, FALSE, db) =>
                      /\ vaults' = vaults
                      /\ resp'.code = "OSError"
                      /\ inl'.pc = "idle"
                /\ upload_vault(file, FALSE, db) =>
                      /\ vaults' = vaults
                      /\ resp'.code = "500"
       /\ \A i \in Ids :
             ~Exists(vaults, i) /\ Exists(vaults', i) =>
                 \/ ArchiveAt(disk', vaults'[i].storage_path) # NoFile
                 \/ /\ vaults'[i].storage_path.kind = "dir"
                    /\ resp'.code = "200"]_vars

\* the service call has just ended with the store's OSError, and the id it
\* drew has no record
C9_Witness ==
    /\ resp.op = "upload_and_process_vault"
    /\ resp.code = "OSError"
    /\ resp.id \in Ids
    /\ ~Exists(vaults, resp.id)
    /\ disk.zips[resp.id] = NoFile

\* an archive member resolves outside of the directory it is extracted into
HasUnsafeEntry(archive) ==
    \E i \in 1..Len(archive.entries) : IsUnsafeName(archive.entries[i].name)

\* C7: extraction of an archive that has an entry resolving outside of the
\* extraction directory (in _process_vault_files and in extract_vault_files)
\* fails with UnsafeArchiveEntry and writes no entry of the archive, and the
\* record of such an archive never reads COMPLETED.
C7_UnsafeArchiveRejected ==
    [][/\ (/\ UploadAndProcess_Extract(TRUE)
           /\ HasUnsafeEntry(ArchiveAt(disk, ZipPath(inl.id))))
          => (/\ disk' = disk
              /\ inl'.pc = "except"
              /\ inl'.exc = "UnsafeArchiveEntry")
       /\ (/\ PV_Extract(TRUE)
           /\ Exists(vaults, task.vault_id)
           /\ HasUnsafeEntry(ArchiveAt(disk, vaults[task.vault_id].storage_path)))
          => (/\ disk' = disk
              /\ task'.pc = "handler"
              /\ task'.exc = "UnsafeArchiveEntry")
       /\ \A i \in Ids :
             (HasUnsafeEntry(disk.zips[i]) /\ Exists(vaults', i))
                => vaults'[i].status # "completed"]_vars

\* the step is the except block of upload_and_process_vault
InlineHandler == \E db \in BOOLEAN : UploadAndProcess_Except(db)

\* the step of upload_and_process_vault raised inside of the try block
InlineRaises ==
    \/ \E io \in BOOLEAN :
          /\ UploadAndProcess_Extract(io)
          /\ ~process_vault_files(disk, ZipPath(inl.id), io).ok
    \/ UploadAndProcess_Complete(FALSE)

QueuedHandler == \E db \in BOOLEAN : PV_Handler(db)

\* the steps of the try block of process_vault, in the order of the code
TrySteps == <<"status", "extract", "analyze", "complete">>

\* the steps an attempt has run are a prefix of the try block, followed by
\* the handler once it has run
IsAttemptTrail(steps, k, handled) ==
    /\ k \in 0..Len(TrySteps)
    /\ steps = SubSeq(TrySteps, 1, k) \o (IF handled THEN <<"handler">> ELSE << >>)

\* the step of process_vault raised inside of the try block, at step
QueuedRaisesAt(step) ==
    /\ \/ \E out \in StatusOutcomes : PV_Status(out)
       \/ \E io \in BOOLEAN : PV_Extract(io)
       \/ \E ok \in BOOLEAN : PV_Analyze(ok)
       \/ \E db \in BOOLEAN : PV_Complete(db)
    /\ task'.failed_at = step

C11_AtMostThreeAttempts ==
    task.steps # << >> => task.retries + 1 <= 3

\* the failures the contract calls terminal: a corrupt or unsafe archive, an
\* id that no vault has
TerminalErrors == {"BadZipFile", "UnsafeArchiveEntry", "Vault not found"}

\* C12: process_vault is sent again only after a transient failure: the
\* handler of an attempt that failed with a terminal kind of error never
\* puts the task back on the queue.
C12_TerminalFailureNotRetried ==
    [][(QueuedHandler /\ task.exc \in TerminalErrors) => task'.pc # "queued"]_vars

\* both strategies have ended
BothEnded == inl.pc = "idle" /\ task.pc \in {"SUCCESS", "FAILURE"}

\* C13: started from the same UPLOADED record and the same stored archive,
\* the inline and the queued strategy end with the same status, on
\* COMPLETED with the same file_count and processed_files, and on failure
\* both with FAILED and an error message.
C13_StrategiesEquivalent ==
    BothEnded =>
       /\ Status(InlineId) = Status(QueuedId)
       /\ Status(InlineId) = "completed" =>
             /\ vaults[InlineId].file_count = vaults[QueuedId].file_count
             /\ vaults[InlineId].processed_files = vaults[QueuedId].processed_files
       /\ Status(InlineId) # "completed" =>
             /\ Status(InlineId) = "failed"
             /\ vaults[InlineId].error_message # None
             /\ vaults[QueuedId].error_message # None

\* the step writes file_count or processed_files of record i
WritesCounts(i) ==
    /\ Exists(vaults, i) /\ Exists(vaults', i)
    /\ \/ vaults'[i].file_count # vaults[i].file_count
       \/ vaults'[i].processed_files # vaults[i].processed_files

\* C14: a COMPLETED record has file_count equal to the number of entries of
\* its stored archive, directory entries included, and processed_files
\* equal to file_count; the two fields are written only by the completing
\* update of a run whose extraction succeeded, and a record that was
\* created has neither of them before that.
C14_CountsAreArchiveEntries ==
    [][\A i \in Ids :
          /\ (Exists(vaults', i) /\ vaults'[i].status = "completed") =>
                /\ vaults'[i].file_count >= 0
                /\ vaults'[i].processed_files = vaults'[i].file_count
                /\ disk'.zips[i] # NoFile =>
                      vaults'[i].file_count = Len(disk'.zips[i].entries)
          /\ WritesCounts(i) =>
                \/ /\ UploadAndProcess_Complete(TRUE)
                   /\ inl.id = i
                   /\ inl.file_count = vaults'[i].file_count
                \/ /\ PV_Complete(TRUE)
                   /\ task.vault_id = i
                   /\ task.steps = <<"status", "extract", "analyze">>
                   /\ task.file_count = vaults'[i].file_count
          /\ (~Exists(vaults, i) /\ Exists(vaults', i)) =>
                /\ vaults'[i].file_count = NoCount
                /\ vaults'[i].processed_files = NoCount]_vars

\* a record is COMPLETED by the queued strategy for an archive with a
\* directory entry: 2 entries, of which one is a file
C14_Witness ==
    /\ task.pc = "SUCCESS"
    /\ Exists(vaults, task.vault_id)
    /\ vaults[task.vault_id].status = "completed"
    /\ disk.zips[task.vault_id] = P_folder
    /\ vaults[task.vault_id].file_count = 2
    /\ vaults[task.vault_id].processed_files = 2
    /\ disk.shared = {N_dir, N_sub}

\* C15: every record that reads UPLOADED leaves UPLOADED in the end and
\* reads COMPLETED or FAILED (or is deleted by a caller), when every step
\* that was started terminates.
C15_UploadedEventuallySettles ==
    \A i \in Ids :
        (Status(i) = "uploaded") ~> (Status(i) \in {"completed", "failed", "absent"})

\* extract_vault_files, given record i, opens its storage_path as the
\* archive content
OpensAs(tbl, d, i, content) ==
    /\ Exists(tbl, i)
    /\ content # NoFile
    /\ ArchiveAt(d, tbl[i].storage_path) = content
    /\ namelist(ArchiveAt(d, tbl[i].storage_path)) = namelist(content)

\* C16: the storage_path of a record is a handle to the uploaded archive:
\* right after the upload that created the record, through the endpoint or
\* through the service, and for as long as the record exists, the path
\* opens as an archive, with exactly the uploaded entries.
C16_StoragePathOpensAsArchive ==
    [][/\ \A file \in UploadFiles :
             /\ (EndpointUpload(file) /\ resp'.code = "200") =>
                    OpensAs(vaults', disk', resp'.id, file.content)
             /\ (ServiceUpload(file) /\ resp'.op = "create_vault") =>
                    OpensAs(vaults', disk', resp'.id, file.content)
       /\ \A i \in Ids :
             (/\ Exists(vaults, i)
              /\ Exists(vaults', i)
              /\ \E p \in Payloads : OpensAs(vaults, disk, i, p))
                => OpensAs(vaults', disk', i,
                           ArchiveAt(disk, vaults[i].storage_path))]_vars

\* C17: delete_vault of an existing id whose commit goes through returns
\* True and removes the record, whether or not the removal of the files
\* failed; an id whose record is gone never has a record again, get_vault
\* of it returns None and get_vaults does not list it.
C17_DeleteRemovesRecord ==
    [][\A i \in Ids :
          /\ \A rm \in BOOLEAN :
                (Exists(vaults, i) /\ delete_vault(i, rm, TRUE)) =>
                   /\ resp'.code = "return" /\ resp'.detail = "True"
                   /\ ~Exists(vaults', i)
                   /\ i \notin get_vaults(vaults')
                   /\ \A j \in Ids \ {i} : vaults'[j] = vaults[j]
          /\ (i <= nextId /\ ~Exists(vaults, i)) =>
                /\ ~Exists(vaults', i)
                /\ i \notin get_vaults(vaults')
                /\ get_vault(i, TRUE) => resp'.detail = None]_vars

\* get_vault has just returned None for an id whose record was created,
\* processed and deleted while its extracted files are still on the disk
C17_Witness ==
    /\ resp.op = "get_vault"
    /\ resp.code = "return"
    /\ resp.detail = None
    /\ resp.id \in Ids
    /\ ~Exists(vaults, resp.id)
    /\ disk.inline[resp.id] # {}
    /\ disk.zips[resp.id] # NoFile

\* C18: get and delete of an id that has no record answer with the
\* not-found signal (None and False in the service, HTTP 404 at the
\* endpoints) when the database answers, and leave every record and every
\* stored file as they were.
C18_NotFoundSignals ==
    [][\A i \in 0..MaxCalls :
          ~Exists(vaults, i) =>
             /\ get_vault(i, TRUE) =>
                   /\ resp'.code = "return" /\ resp'.detail = None
                   /\ vaults' = vaults /\ disk' = disk
             /\ (\E rm \in BOOLEAN : delete_vault(i, rm, TRUE)) =>
                   /\ resp'.code = "return" /\ resp'.detail = "False"
                   /\ vaults' = vaults /\ disk' = disk
             /\ router_get_vault(i, TRUE) =>
                   /\ resp'.code = "404"
                   /\ vaults' = vaults /\ disk' = disk
             /\ (\E rm \in BOOLEAN : router_delete_vault(i, rm, TRUE)) =>
                   /\ resp'.code = "404"
                   /\ vaults' = vaults /\ disk' = disk]_vars

\* the endpoint has nothing to refuse in the upload: accepted name and
\* size, a knowledge-base zip whose members all extract
Uploadable(file) ==
    /\ ~BadName(file) /\ ~TooLarge(file)
    /\ is_valid_zip(file.content)
    /\ Extract(file.content, TRUE).ok

\* C19: an upload through the endpoint that nothing stops (valid file,
\* storage and database working) succeeds: it is answered 200 with status
\* "uploaded" and the id of exactly one new record, an id no record had
\* before, in status UPLOADED with the upload's filename and byte size, and
\* every other record is left as it was.
C19_EndpointUploadCreatesRecord ==
    [][\A file \in UploadFiles :
          (Uploadable(file) /\ upload_vault(file, TRUE, TRUE)) =>
             /\ resp'.code = "200" /\ resp'.detail = "uploaded"
             /\ resp'.id = nextId + 1
             /\ ~Exists(vaults, resp'.id)
             /\ Exists(vaults', resp'.id)
             /\ vaults'[resp'.id].status = "uploaded"
             /\ vaults'[resp'.id].original_filename = file.filename
             /\ vaults'[resp'.id].file_size = file.content.len
             /\ \A j \in Ids \ {resp'.id} : vaults'[j] = vaults[j]]_vars

\* C20: update_vault_status of an existing id sets status to the given
\* value and overwrites error_message, file_count and processed_files only
\* when the argument is supplied; the fields not supplied, the identity
\* fields and every other record stay as they were, and a stored message is
\* never cleared. For an id without a record it returns None and changes
\* nothing.
C20_UpdateFrame ==
    [][\A id \in KnownIds, st \in StatusArgs, em \in MessageArgs,
         fc \in FileCountArgs, pf \in ProcessedArgs :
          UpdateVaultStatus(id, st, em, fc, pf, TRUE) =>
             /\ \A j \in Ids \ {id} : vaults'[j] = vaults[j]
             /\ disk' = disk
             /\ Exists(vaults, id) =>
                   /\ vaults'[id].status = st
                   /\ vaults'[id].error_message =
                         (IF em = None THEN vaults[id].error_message ELSE em)
                   /\ vaults'[id].file_count =
                         (IF fc = NoCount THEN vaults[id].file_count ELSE fc)
                   /\ vaults'[id].processed_files =
                         (IF pf = NoCount THEN vaults[id].processed_files ELSE pf)
                   /\ vaults'[id].original_filename = vaults[id].original_filename
                   /\ vaults'[id].file_size = vaults[id].file_size
                   /\ vaults'[id].storage_path = vaults[id].storage_path
                   /\ vaults[id].error_message # None =>
                         vaults'[id].error_message # None
                   /\ resp'.detail = "Vault"
             /\ ~Exists(vaults, id) =>
                   /\ vaults' = vaults
                   /\ resp'.code = "return" /\ resp'.detail = None]_vars

\* a record was moved to COMPLETED with a message and a file count of 0
\* supplied and processed_files never supplied: processed_files is as
\* create_vault left it, and so is the whole of a second record
C20_Witness ==
    /\ resp.op = "update_vault_status" /\ resp.detail = "Vault"
    /\ resp.id = 1
    /\ vaults[1].status = "completed"
    /\ vaults[1].error_message = "boom"
    /\ vaults[1].file_count = 0
    /\ vaults[1].processed_files = NoCount
    /\ vaults[2] = create_vault(FN_zip, P_good.len, ZipPath(2))

\* the bytes open as a zip archive and an entry has a wrong checksum
HasBadChecksum(content) ==
    content.zip /\ \E i \in 1..Len(content.entries) : ~content.entries[i].crc_ok

\* C23: an archive that opens as a zip but has an entry with a bad checksum
\* fails the content check (_is_valid_zip_content and _is_valid_zip return
\* false), so the upload is refused and no record is created.
C23_BadChecksumRejected ==
    [][\A file \in UploadFiles :
          HasBadChecksum(file.content) =>
             /\ ~is_valid_zip_content(file.content)
             /\ ~is_valid_zip(file.content)
             /\ ServiceUpload(file) =>
                   /\ vaults' = vaults
                   /\ resp'.code = "ValueError"
             /\ EndpointUpload(file) =>
                   /\ vaults' = vaults
                   /\ resp'.code \in {"400", "500"}]_vars

\* no attempt of process_vault is executing: the task has ended, or it waits
\* on the queue for its first or its next attempt
NoAttemptExecuting == Ended(task) \/ task.pc = "queued"

\* C29: a processing job leaves RUNNING when the attempt that created it
\* ends: once no attempt of process_vault is executing, no job is RUNNING.
C29_NoJobRunningAfterAttempt ==
    NoAttemptExecuting => \A j \in 1..Len(jobs) : jobs[j].status # "running"

\* C30: no vault record ever has a file_size greater than the configured
\* maximum, whatever size the upload declared (none and 0 included).
C30_StoredSizeWithinLimit ==
    \A i \in Ids : Exists(vaults, i) => vaults[i].file_size <= MAX_VAULT_SIZE

\* every member of the archive is a file
OnlyFileEntries(archive) ==
    \A i \in 1..Len(archive.entries) : ~IsDirEntry(archive.entries[i].name)

\* the lists of info hold each file of tree once, by the priority of the
\* three kinds
ListsPartition(info, tree) ==
    /\ info.markdown_files \cup info.attachment_files \cup info.config_files
          = walk_files(tree)
    /\ info.markdown_files \cap info.attachment_files = {}
    /\ info.markdown_files \cap info.config_files = {}
    /\ info.attachment_files \cap info.config_files = {}
    /\ \A f \in walk_files(tree) :
          /\ f \in info.markdown_files <=> EndsWith(Basename(f), DotMd)
          /\ f \in info.config_files <=>
                /\ ~EndsWith(Basename(f), DotMd)
                /\ (Basename(f)[1] = "." \/ Contains(f, DotObsidian))

ListsTotal(info) ==
    Cardinality(info.markdown_files) + Cardinality(info.attachment_files)
        + Cardinality(info.config_files)

\* C24: a successful extraction of either strategy puts every file found
\* under its extraction directory into exactly one list: a note when the
\* filename ends in ".md" (also when hidden or under ".obsidian"), else
\* configuration when the filename starts with "." or the relative path
\* contains ".obsidian", else an attachment; for an archive with only file
\* entries the three list lengths sum to file_count.
C24_ClassificationPartitions ==
    [][/\ (UploadAndProcess_Extract(TRUE) /\ inl'.pc = "extracted") =>
             /\ ListsPartition(inl'.file_info, disk'.inline[inl.id])
             /\ OnlyFileEntries(disk.zips[inl.id]) =>
                   ListsTotal(inl'.file_info) = inl'.file_count
       /\ (PV_Extract(TRUE) /\ task'.pc = "analyze") =>
             /\ ListsPartition(task'.file_info, disk'.shared)
             /\ OnlyFileEntries(disk.zips[task.vault_id]) =>
                   ListsTotal(task'.file_info) = task'.file_count]_vars

\* the extraction of an archive when its vault is ingested alone: into a
\* directory that holds nothing
ExtractedAlone(archive) == ExtractInto({}, archive, TRUE)

\* C21: ingestions of different vaults are independent: whatever steps of
\* other ingestions came before, the extraction of a vault whose record and
\* archive are in place succeeds exactly when it succeeds alone, with the
\* file_count and the note, attachment and configuration lists it has
\* alone, and the completing update writes that file_count with COMPLETED.
C21_IngestionsIndependent ==
    [][/\ (/\ UploadAndProcess_Extract(TRUE)
           /\ disk.zips[inl.id] # NoFile) =>
             LET alone == ExtractedAlone(disk.zips[inl.id])
             IN /\ (inl'.pc = "extracted") <=> alone.ok
                /\ alone.ok => /\ inl'.file_count = alone.file_count
                               /\ inl'.file_info = alone.file_info
       /\ (/\ PV_Extract(TRUE)
           /\ Exists(vaults, task.vault_id)
           /\ disk.zips[task.vault_id] # NoFile) =>
             LET alone == ExtractedAlone(disk.zips[task.vault_id])
             IN /\ (task'.pc = "analyze") <=> alone.ok
                /\ alone.ok => /\ task'.file_count = alone.file_count
                               /\ task'.file_info = alone.file_info
       /\ (/\ PV_Complete(TRUE)
           /\ Exists(vaults, task.vault_id)
           /\ disk.zips[task.vault_id] # NoFile) =>
             /\ vaults'[task.vault_id].status = "completed"
             /\ vaults'[task.vault_id].file_count =
                   ExtractedAlone(disk.zips[task.vault_id]).file_count]_vars

\* the id was handed out and has no record: its record was deleted
Deleted(i) == i \in Ids /\ i <= nextId /\ ~Exists(vaults, i)

\* the step is a step of an ingestion that is in flight for id i, or a call
\* of update_vault_status for it
InFlightStep(i) ==
    \/ /\ inl.id = i
       /\ \/ UploadAndProcess_Extract(TRUE)
          \/ UploadAndProcess_Complete(TRUE)
          \/ UploadAndProcess_Except(TRUE)
    \/ /\ task.vault_id = i
       /\ \/ PV_Status("ok")
          \/ PV_Extract(TRUE)
          \/ PV_Analyze(TRUE)
          \/ PV_Complete(TRUE)
          \/ PV_Handler(TRUE)
    \/ \E status \in StatusArgs :
          UpdateVaultStatus(i, status, None, NoCount, NoCount, TRUE)

\* C22: a deleted record is never resurrected: once delete_vault has
\* committed for an id, the id has no record in any later state, and every
\* step of an ingestion in flight for it (extraction, status, completion and
\* failure update) and every update_vault_status of it leaves the whole
\* vaults table as it was.
C22_DeletedNeverResurrected ==
    [][\A i \in Ids :
          Deleted(i) =>
             /\ ~Exists(vaults', i)
             /\ InFlightStep(i) => vaults' = vaults]_vars

\* the record of a vault was deleted while process_vault was between its
\* analysis and its completing update: the completing update found no row,
\* control is in the handler, and the other vault still has its record
C22_Witness ==
    /\ task.pc = "handler"
    /\ task.failed_at = "complete"
    /\ task.exc = "AttributeError"
    /\ Deleted(task.vault_id)
    /\ \E j \in Ids : Exists(vaults, j)

\* C27: delete_vault of one vault removes only files of that vault: the
\* stored archive and the extracted tree of every other vault are the same
\* after the call as before it.
C27_DeleteLeavesOtherVaultsFiles ==
    [][\A i \in Ids, rm \in BOOLEAN, db \in BOOLEAN :
          (Exists(vaults, i) /\ delete_vault(i, rm, db)) =>
             \A j \in Ids \ {i} :
                /\ disk'.zips[j] = disk.zips[j]
                /\ disk'.inline[j] = disk.inline[j]
                /\ disk'.unzipped[j] = disk.unzipped[j]]_vars

\* what the notes that were read add up to
RECURSIVE LengthRead(_)
LengthRead(reads) ==
    IF reads = << >> THEN 0
    ELSE (IF Head(reads).ok THEN Len(Head(reads).text) ELSE 0)
            + LengthRead(Tail(reads))

\* the step is the analysis of the task's note list with these reads
Analyzes(reads) ==
    /\ DOMAIN reads = 1..Len(task.file_info.markdown_files)
    /\ AnalyzeVaultContent(reads)

AllReads ==
    UNION {[1..n -> ReadOutcomes] : n \in 0..MaxNotes}

\* C25: analyze_vault_content returns average_note_length 0, and no error,
\* for an empty note list; otherwise the average is the aggregate content
\* length divided by the number of notes in the list, the notes that could
\* not be read counted in.
C25_AverageNoteLength ==
    [][\A reads \in AllReads :
          Analyzes(reads) =>
             LET n == Len(task.file_info.markdown_files)
                 result == task'.analysis
             IN /\ task'.pc = "complete"
                /\ result.total_content_length = LengthRead(reads)
                /\ n = 0 => result.average_note_length = Zero
                /\ n > 0 =>
                      /\ result.average_note_length.den > 0
                      /\ result.average_note_length.num * n =
                            LengthRead(reads) * result.average_note_length.den]_vars

\* two notes were analysed, one of 5 characters and one that could not be
\* read: the average is 5 / 2
C25_Witness ==
    /\ task.pc = "complete"
    /\ Len(task.file_info.markdown_files) = 2
    /\ Len(task.analysis.note_titles) = 1
    /\ task.analysis.total_content_length = 5
    /\ task.analysis.average_note_length = [num |-> 5, den |-> 2]

\* the positions of the notes that were read
ReadPositions(reads) == {i \in DOMAIN reads : reads[i].ok}

\* C26: a note that cannot be read or decoded does not fail
\* analyze_vault_content: the task returns a result, in which that note adds
\* 0 to total_content_length and no title to note_titles, while every
\* other note adds its length and its title, in the order of the list; so
\* there are at most as many titles as notes, and the vault still reaches
\* COMPLETED.
C26_UnreadableNoteSkipped ==
    [][\A reads \in AllReads :
          Analyzes(reads) =>
             LET files == task.file_info.markdown_files
                 result == task'.analysis
                 pos == ReadPositions(reads)
             IN /\ task'.pc = "complete"
                /\ task'.failed_at = None
                /\ result.total_content_length = LengthRead(reads)
                /\ Len(result.note_titles) = Cardinality(pos)
                /\ Len(result.note_titles) <= Len(files)
                /\ \A i \in pos :
                      result.note_titles[Cardinality({j \in pos : j <= i})]
                          = note_title(files[i], reads[i].text)
                /\ Exists(vaults', task'.vault_id)
                /\ vaults'[task'.vault_id].status = "processing"]_vars

\* the record is COMPLETED after an analysis of two notes of which the
\* first could not be read: the one title is the heading of the second
C26_Witness ==
    /\ task.pc = "SUCCESS"
    /\ Len(task.file_info.markdown_files) = 2
    /\ task.analysis.note_titles = << <<"T">> >>
    /\ task.analysis.total_content_length = 5
    /\ vaults[task.vault_id].status = "completed"

\* C28: the queued pipeline cannot deadlock on its own worker pool: a
\* process_vault that waits for the result of its extract_vault_files or
\* analyze_vault_content sub-task gets that result in the end, and every
\* process_vault that a slot runs finishes: whenever a slot runs
\* process_vault, there is a later moment at which no slot waits and every
\* slot is free.
C28_PoolNeverDeadlocks ==
    (\E w \in Slots : pool.slots[w].name = "process_vault")
        ~> (\A w \in Slots : ~Waiting(pool.slots[w]) /\ pool.slots[w] = Free)

====
